---- MODULE Spec2Model ----
(***************************************************************************)
(* State-machine model of the two pygame programs of the repository:       *)
(*   "AI Projects/flappybird.py"   (class Game)                            *)
(*   "AI Projects/racing game.py"  (classes Car3D, Track3D, Game3D)        *)
(*                                                                         *)
(* and of the console program                                              *)
(*   "2024 Practice Assignment/Question 1d - Program Building (2024).py"   *)
(*                                                                         *)
(* Each game is a single-threaded frame loop                               *)
(*     while running: handle events; update; draw                          *)
(* An event handler call is modelled one event at a time, an update as one *)
(* step.  The two programs are independent processes, so each has its own  *)
(* specification (SpecFlappy, SpecRacing) over the same variables.  The    *)
(* console program has SpecTraining.  SpecCalls applies single methods of  *)
(* the games to arguments drawn from bounded sets.                         *)
(*                                                                         *)
(* Arithmetic.  The programs compute with floats; the model uses fixed     *)
(* point integers:                                                         *)
(*   flappy : every length and velocity is kept in half pixels (Scale = 2),*)
(*            which is exact, because every quantity of the program is a   *)
(*            multiple of 0.5;                                             *)
(*   racing : tenths of a unit, hundredths of a degree, rounded to the     *)
(*            nearest at every operation (see the racing section).         *)
(***************************************************************************)
EXTENDS Integers, Sequences, FiniteSets, TLC

VARIABLES
    game,       \* the flappy Game object (fields of reset_game and running)
    game3d,     \* the racing Game3D object (running, state, player, ai_cars)
    pc,         \* position of the running program's main loop: "loop" | "exited"
    ev,         \* the event handled by the latest handler step ("tick" after an update)
    held,       \* racing: pygame.key.get_pressed() of the latest update
    frames,     \* history: flappy, updates that advanced the session since the last
                \* reset; racing, updates made in state "racing" since the start
    flapped,    \* history: flappy, a flap was made since the last reset
    keychanges, \* history: racing, how often the held keys changed between updates
    races,      \* history: racing, how many races were started (setup_game on SPACE)
    counted,    \* history: racing, the cars (0 the player, 1..3 the AI cars) whose
                \* lap_count the latest update incremented
    gone,       \* history: flappy, the pipes update has removed since the last reset
    probe,      \* a single method call: its arguments and, once made, its result
    trainer     \* the training-session program: its variables and its position

vars == <<game, game3d, pc, ev, held, frames, flapped, keychanges, races, counted,
          gone, probe, trainer>>

\* what each program leaves alone: the other programs' state
racingVars == <<game3d, held, keychanges, races, counted>>
flappyVars == <<game, flapped, gone>>

(***************************************************************************)
(*                              flappybird.py                              *)
(***************************************************************************)

\* Fixed-point factor of the flappy model: 1 pixel = Scale units.
Scale == 2

SCREEN_WIDTH == 800
SCREEN_HEIGHT == 600
\* GRAVITY = 0.5 pixel per frame, in half pixels
GRAVITY == 1
FLAP_STRENGTH == -12
PLAYER_SIZE == 60
\* width of a pipe, the literal 50 of Game.update
PIPE_WIDTH == 50

\* ---- bounds of the flappy model
\* updates modelled in one session (between two resets)
MaxFlappyFrames == 260
\* the player may flap only on every FlapEvery-th frame of a session
FlapEvery == 16
\* spawn_pipe's random height is drawn from every HeightStep-th value of its range
HeightStep == 240

PX(n) == Scale * n

Max(a, b) == IF a >= b THEN a ELSE b

\* random.randint(80, SCREEN_HEIGHT - current_gap - 80): the heights (whole pixels)
\* the model draws from, for a gap given in model units
PipeHeights(gap) ==
    { PX(h) : h \in { k \in 80..(SCREEN_HEIGHT - 80 - gap \div Scale) :
                        \/ (k - 80) % HeightStep = 0
                        \/ k = SCREEN_HEIGHT - 80 - gap \div Scale } }

\* mutant of NextGap: the gap without its floor of 100
NextGap_NoFloor(g) == g.base_gap - g.pipes_passed * PX(5)

\* the gap spawn_pipe gives the next pipe: max(100, base_gap - pipes_passed * 5)
NextGap(g) == Max(PX(100), g.base_gap - g.pipes_passed * PX(5))

\* Game.spawn_pipe with the random height h
spawn_pipe(g, h) ==
    [g EXCEPT !.current_speed = g.base_speed + g.pipes_passed,   \* + pipes_passed * 0.5
              !.current_gap = NextGap(g),
              !.pipes = Append(g.pipes,
                               [x |-> PX(SCREEN_WIDTH),
                                top_height |-> h,
                                gap |-> NextGap(g),
                                passed |-> FALSE])]

\* mutant of ResetFields: reset_game without "self.pipes = []"
ResetFields_KeepsPipes(g) ==
    [g EXCEPT !.player_x = PX(100),
              !.player_y = PX(SCREEN_HEIGHT \div 2),
              !.player_velocity = 0,
              !.score = 0,
              !.game_over = FALSE,
              !.pipes_passed = 0,
              !.base_speed = PX(4),
              !.current_speed = PX(4),
              !.base_gap = PX(200),
              !.current_gap = PX(200)]

\* Game.reset_game up to its final spawn_pipe call
ResetFields(g) ==
    [g EXCEPT !.player_x = PX(100),
              !.player_y = PX(SCREEN_HEIGHT \div 2),
              !.player_velocity = 0,
              !.pipes = << >>,
              !.score = 0,
              !.game_over = FALSE,
              !.pipes_passed = 0,
              !.base_speed = PX(4),
              !.current_speed = PX(4),
              !.base_gap = PX(200),
              !.current_gap = PX(200)]

\* Game.reset_game with the random height h of its first pipe
reset_game(g, h) == spawn_pipe(ResetFields(g), h)

\* the object before __init__ has set its game fields
BlankGame ==
    [running |-> TRUE, player_x |-> 0, player_y |-> 0, player_velocity |-> 0,
     pipes |-> << >>, score |-> 0, game_over |-> FALSE, pipes_passed |-> 0,
     base_speed |-> 0, current_speed |-> 0, base_gap |-> 0, current_gap |-> 0]

\* ---- Game.update, step by step

\* the pipe loop of lines 126-133: move a pipe and mark it passed
MovePipe(p, speed, player_x) ==
    [p EXCEPT !.x = p.x - speed,
              !.passed = p.passed \/ (p.x - speed + PX(PIPE_WIDTH) < player_x)]

MovePipes(ps, speed, player_x) ==
    [i \in 1..Len(ps) |-> MovePipe(ps[i], speed, player_x)]

\* mutant of NewlyPassed: the loop without its test "not pipe["passed"]"
NewlyPassed_EveryFrame(ps, moved) ==
    Cardinality({i \in 1..Len(ps) : moved[i].passed})

\* pipes marked passed by this frame's loop
NewlyPassed(ps, moved) ==
    Cardinality({i \in 1..Len(ps) : ~ps[i].passed /\ moved[i].passed})

OnScreen(p) == p.x > PX(-100)

\* mutant of OutOfBounds: the boundary test without the upper boundary
OutOfBounds_BottomOnly(y) == y + PX(PLAYER_SIZE) > PX(SCREEN_HEIGHT)

\* mutant of OutOfBounds: the boundary test without the lower boundary
OutOfBounds_TopOnly(y) == y < 0

\* line 122: the boundary test
OutOfBounds(y) == y < 0 \/ y + PX(PLAYER_SIZE) > PX(SCREEN_HEIGHT)

\* mutant of HOverlap: the horizontal test without its second comparison
HOverlap_LeftOnly(player_x, p) == player_x < p.x + PX(PIPE_WIDTH)

\* lines 144-145: the player's box overlaps the pipe's horizontal span
HOverlap(player_x, p) ==
    player_x < p.x + PX(PIPE_WIDTH) /\ player_x + PX(PLAYER_SIZE) > p.x

\* mutant of OutsideGap: the vertical test without the bottom pipe
OutsideGap_TopOnly(y, p) == y < p.top_height

\* lines 147-148: the player's box is not inside the pipe's gap
OutsideGap(y, p) ==
    y < p.top_height \/ y + PX(PLAYER_SIZE) > p.top_height + p.gap

PipeHit(player_x, y, p) == HOverlap(player_x, p) /\ OutsideGap(y, p)

\* line 139: a new pipe is due
SpawnDue(ps) == Len(ps) = 0 \/ ps[Len(ps)].x < PX(SCREEN_WIDTH - 200)

\* Game.update, lines 117-136: gravity, the boundary test, the pipe loop and the
\* removal of off-screen pipes
UpdatePhysics(g) ==
    LET v      == g.player_velocity + GRAVITY
        y      == g.player_y + v
        moved  == MovePipes(g.pipes, g.current_speed, g.player_x)
        n      == NewlyPassed(g.pipes, moved)
    IN  [g EXCEPT !.player_velocity = v,
                  !.player_y = y,
                  !.game_over = OutOfBounds(y),
                  !.pipes = SelectSeq(moved, OnScreen),
                  !.score = g.score + n,
                  !.pipes_passed = g.pipes_passed + n]

\* Game.update for a session that is not over; h is the random height used if a
\* pipe is spawned
UpdateGame(g, h) ==
    LET g1  == UpdatePhysics(g)
        g2  == IF SpawnDue(g1.pipes) THEN spawn_pipe(g1, h) ELSE g1
        hit == \E i \in 1..Len(g2.pipes) :
                   PipeHit(g2.player_x, g2.player_y, g2.pipes[i])
    IN  [g2 EXCEPT !.game_over = g1.game_over \/ hit]

\* a pipe the filter of line 136 drops
OffScreen(p) == ~OnScreen(p)

\* the pipes an update of g removes from the list, in list order
Dropped(g) ==
    IF g.game_over THEN << >>
    ELSE SelectSeq(MovePipes(g.pipes, g.current_speed, g.player_x), OffScreen)

\* mutant of Game_update: update without "if self.game_over: return"
Game_update_NoGuard(g, h) == UpdateGame(g, h)

\* Game.update: it returns at once while the session is over
Game_update(g, h) == IF g.game_over THEN g ELSE UpdateGame(g, h)

\* Game.handle_input for one KEYDOWN K_SPACE event; h is the random height of the
\* first pipe if the session is reset
KeySpace(g, h) ==
    IF g.game_over THEN reset_game(g, h)
    ELSE [g EXCEPT !.player_velocity = PX(FLAP_STRENGTH)]

\* ---- the actions of the flappy program

\* pygame.QUIT in handle_input
FlappyQuit ==
    /\ pc = "loop"
    /\ game' = [game EXCEPT !.running = FALSE]
    /\ ev' = "quit"
    /\ UNCHANGED <<pc, frames, flapped, gone, racingVars, probe, trainer>>

\* KEYDOWN K_SPACE while game_over: reset_game
FlappyRestart ==
    /\ pc = "loop"
    /\ game.game_over
    /\ \E h \in PipeHeights(PX(200)) : game' = KeySpace(game, h)
    /\ ev' = "space"
    /\ frames' = 0
    /\ flapped' = FALSE
    /\ gone' = << >>
    /\ UNCHANGED <<pc, racingVars, probe, trainer>>

\* KEYDOWN K_SPACE while playing: flap
FlappyFlap ==
    /\ pc = "loop"
    /\ ~game.game_over
    /\ frames % FlapEvery = 0
    /\ \E h \in PipeHeights(PX(200)) : game' = KeySpace(game, h)
    /\ ev' = "space"
    /\ flapped' = TRUE
    /\ UNCHANGED <<pc, frames, gone, racingVars, probe, trainer>>

\* KEYDOWN of any other key: no branch of handle_input takes it
FlappyOtherKey ==
    /\ pc = "loop"
    /\ \E k \in {"escape", "other"} : ev' = k
    /\ UNCHANGED <<game, pc, frames, flapped, gone, racingVars, probe, trainer>>

\* one pass of the loop body after the events: update (draw changes nothing),
\* then the while test
FlappyUpdate ==
    /\ pc = "loop"
    /\ frames < MaxFlappyFrames
    /\ \E h \in PipeHeights(NextGap(UpdatePhysics(game))) :
          game' = Game_update(game, h)
    /\ frames' = IF game.game_over THEN frames ELSE frames + 1
    /\ gone' = gone \o [i \in 1..Len(Dropped(game)) |-> Dropped(game)[i].passed]
    /\ pc' = IF game.running THEN "loop" ELSE "exited"
    /\ ev' = "tick"
    /\ UNCHANGED <<flapped, racingVars, probe, trainer>>

(***************************************************************************)
(*                              racing game.py                             *)
(*                                                                         *)
(* Fixed point of the racing model:                                        *)
(*   lengths and velocities in tenths of a unit (Deci = 10),               *)
(*   angles in hundredths of a degree (Centi = 100),                       *)
(*   sines and cosines in ten-thousandths (Trig = 10000).                  *)
(* Every float operation of the source is the same operation on these      *)
(* integers, rounded to the nearest (RDiv).  Closest-point searches        *)
(* compare squared distances, which orders points as math.sqrt of them     *)
(* does.                                                                   *)
(***************************************************************************)

Deci == 10
Centi == 100
Trig == 10000

\* a / b rounded to the nearest integer (b > 0)
RDiv(a, b) == (2 * a + b) \div (2 * b)

Abs(a) == IF a < 0 THEN -a ELSE a

\* math.sqrt on a non-negative integer, rounded down (Newton's iteration)
RECURSIVE SqrtIter(_, _)
SqrtIter(n, x) ==
    LET y == (x + n \div x) \div 2
    IN  IF y >= x THEN x ELSE SqrtIter(n, y)

ISqrt(n) == IF n < 2 THEN n ELSE SqrtIter(n, IF n < 46340 THEN n ELSE 46340)

\* Trig * sin(d degrees), d = 0..90
SinTab ==
    [d \in 0..90 |->
      << 0, 175, 349, 523, 698, 872, 1045, 1219, 1392, 1564, 1736, 1908, 2079,
        2250, 2419, 2588, 2756, 2924, 3090, 3256, 3420, 3584, 3746, 3907, 4067, 4226,
        4384, 4540, 4695, 4848, 5000, 5150, 5299, 5446, 5592, 5736, 5878, 6018, 6157,
        6293, 6428, 6561, 6691, 6820, 6947, 7071, 7193, 7314, 7431, 7547, 7660, 7771,
        7880, 7986, 8090, 8192, 8290, 8387, 8480, 8572, 8660, 8746, 8829, 8910, 8988,
        9063, 9135, 9205, 9272, 9336, 9397, 9455, 9511, 9563, 9613, 9659, 9703, 9744,
        9781, 9816, 9848, 9877, 9903, 9925, 9945, 9962, 9976, 9986, 9994, 9998, 10000
      >>[d + 1]]

\* sine of c hundredths of a degree, 0 <= c <= 9000, interpolated in the table
SinQ(c) ==
    LET d == c \div Centi
        r == c % Centi
    IN  IF r = 0 THEN SinTab[d]
        ELSE SinTab[d] + RDiv((SinTab[d + 1] - SinTab[d]) * r, Centi)

\* math.sin(math.radians(c / 100)) * Trig, any integer c
Sin(c) ==
    LET m == c % 36000
    IN  IF m <= 9000 THEN SinQ(m)
        ELSE IF m <= 18000 THEN SinQ(18000 - m)
        ELSE IF m <= 27000 THEN -SinQ(m - 18000)
        ELSE -SinQ(36000 - m)

\* math.cos(math.radians(c / 100)) * Trig
Cos(c) == Sin(c + 9000)

\* Trig * tan(d degrees), d = 0..45
TanTab == [d \in 0..45 |-> RDiv(SinTab[d] * Trig, SinTab[90 - d])]

\* atan(a / b) in hundredths of a degree, for 0 <= a <= b, b > 0
AtanRatio(a, b) ==
    LET t == (a * Trig) \div b
        d == Cardinality({k \in 1..45 : TanTab[k] <= t})
    IN  IF d = 45 THEN 4500
        ELSE 100 * d + ((t - TanTab[d]) * Centi) \div (TanTab[d + 1] - TanTab[d])

\* math.degrees(math.atan2(dz, dx)) in hundredths of a degree, -18000 < r <= 18000
Atan2(dz, dx) ==
    LET ax == Abs(dx)
        az == Abs(dz)
        th == IF az <= ax THEN AtanRatio(az, ax) ELSE 9000 - AtanRatio(ax, az)
    IN  IF dx = 0 /\ dz = 0 THEN 0
        ELSE IF dx >= 0 THEN (IF dz >= 0 THEN th ELSE -th)
        ELSE (IF dz >= 0 THEN 18000 - th ELSE th - 18000)

\* ---- Track3D.generate_track

\* segments = 200
Segments == 200

\* the track point of index i: angle = (i / segments) * 4 * pi = i * 3.6 degrees
TrackPoint(i) ==
    LET a  == 360 * i
        fx == Trig + RDiv(3 * Sin(2 * a), 10)       \* 1.0 + 0.3 * sin(angle * 2)
        fz == Trig + RDiv(2 * Cos(3 * a), 10)       \* 1.0 + 0.2 * cos(angle * 3)
    IN  [x |-> RDiv(RDiv(400 * Deci * Cos(a), 1000) * fx, 100000),
         z |-> RDiv(RDiv(300 * Deci * Sin(a), 1000) * fz, 100000),
         y |-> 50 * Deci
               + RDiv(40 * Deci * Sin(2 * a) + 25 * Deci * Cos(3 * a)
                      + 15 * Deci * Sin(5 * a), Trig)]

\* Track3D.points, indices 0..199.  (Composing with the empty function leaves the
\* function as it is and makes TLC tabulate it once.)
\* angle makes two full rotations over the 200 segments and every term of a point
\* has period one rotation, so points i and i + 100 are the same point; the floats
\* of the source differ there in their last bits only.
track_points == [i \in 0..(Segments - 1) |-> TrackPoint(i)] @@ << >>

\* ---- bounds of the racing model
\* racing updates modelled in one run of the program
MaxRaceFrames == 8
\* how often the held key combination may change in one run
MaxKeyChanges == 2

\* the frame time dt of Car3D.update (its default, 0.016 s), in milliseconds
DtMs == 16

\* CarClass: the stats of each class
CarClass ==
    [ECONOMY  |-> [max_speed |-> 200, acceleration |-> 7,  handling |-> 95],
     SPORTS   |-> [max_speed |-> 240, acceleration |-> 12, handling |-> 88],
     SUPERCAR |-> [max_speed |-> 300, acceleration |-> 16, handling |-> 80],
     MUSCLE   |-> [max_speed |-> 260, acceleration |-> 14, handling |-> 75]]

\* Car3D.__init__
Car3D(x, y, z, car_class, is_player) ==
    [pos |-> [x |-> x, y |-> y, z |-> z],
     velocity |-> [x |-> 0, y |-> 0, z |-> 0],
     angle_yaw |-> 0,
     car_class |-> car_class,
     is_player |-> is_player,
     speed |-> 0,
     lap_count |-> 0,
     last_checkpoint |-> 0,
     finished |-> FALSE,
     distance_traveled |-> 0,
     is_reversing |-> FALSE,
     max_speed |-> CarClass[car_class].max_speed,
     acceleration |-> CarClass[car_class].acceleration,
     handling |-> CarClass[car_class].handling]

\* the velocity added along the heading: (forward, right) * acceleration * k
Thrust(c, yaw, k) ==
    [x |-> RDiv(Cos(yaw) * c.acceleration * k * Deci, Trig),
     z |-> RDiv(Sin(yaw) * c.acceleration * k * Deci, Trig)]

\* "Max speed cap" (lines 153-156 and 188-191): rescales velocity v when the car's
\* speed field exceeds max_speed.  The speed field is the one Car3D.update computed
\* at the end of the previous frame.
SpeedCap(c, v) ==
    IF c.speed > c.max_speed * Deci
      THEN [v EXCEPT !.x = RDiv(v.x * c.max_speed * Deci, Max(c.speed, 1)),
                     !.z = RDiv(v.z * c.max_speed * Deci, Max(c.speed, 1))]
      ELSE v

\* mutant of TurnAmount: a turn of 5 degrees at any speed
TurnAmount_Fixed(c) == 5 * Centi

\* turn_amount = 5.0 * (speed / max(max_speed, 1)), in hundredths of a degree
TurnAmount(c) == RDiv(5 * Centi * c.speed, Max(c.max_speed, 1) * Deci)

\* Car3D.update_player_input; keys is the pressed-key record
update_player_input(c, keys) ==
    LET t50  == Thrust(c, c.angle_yaw, 50)
        t30  == Thrust(c, c.angle_yaw, 30)
        v0   == c.velocity
        v1   == IF keys.w THEN [v0 EXCEPT !.x = @ + t50.x, !.z = @ + t50.z] ELSE v0
        v2   == IF keys.s
                  THEN IF keys.shift
                         THEN [v1 EXCEPT !.x = @ - t30.x, !.z = @ - t30.z]
                         ELSE [v1 EXCEPT !.x = RDiv(@ * 80, 100), !.z = RDiv(@ * 80, 100)]
                  ELSE v1
        yaw1 == IF keys.a THEN c.angle_yaw - TurnAmount(c) ELSE c.angle_yaw
        yaw2 == IF keys.d THEN yaw1 + TurnAmount(c) ELSE yaw1
    IN  [c EXCEPT !.is_reversing = keys.shift,
                  !.angle_yaw = yaw2 % 36000,
                  !.velocity = SpeedCap(c, v2)]

\* the two while loops of update_ai: bring an angle difference into [-180, 180]
RECURSIVE WrapAngle(_)
WrapAngle(d) ==
    IF d > 18000 THEN WrapAngle(d - 36000)
    ELSE IF d < -18000 THEN WrapAngle(d + 36000)
    ELSE d

Min(a, b) == IF a <= b THEN a ELSE b

\* Car3D.update_ai
update_ai(c) ==
    LET target == track_points[Min(c.last_checkpoint + 8, Segments - 1)]
        target_angle == Atan2(target.z - c.pos.z, target.x - c.pos.x)
        angle_diff == WrapAngle(target_angle - c.angle_yaw)
        yaw  == (c.angle_yaw + RDiv(angle_diff * 8, 100)) % 36000
        t30  == Thrust(c, yaw, 30)
        v0   == c.velocity
        v1   == IF c.speed * 100 < c.max_speed * Deci * 85     \* speed < max_speed * 0.85
                  THEN [v0 EXCEPT !.x = @ + t30.x, !.z = @ + t30.z]
                  ELSE v0
    IN  [c EXCEPT !.angle_yaw = yaw, !.velocity = SpeedCap(c, v1)]

\* squared distance in the plane (x, z) and in space
Dist2XZ(p, q) == (q.x - p.x) * (q.x - p.x) + (q.z - p.z) * (q.z - p.z)
Dist2(p, q) == Dist2XZ(p, q) + (q.y - p.y) * (q.y - p.y)

\* the distance the two search loops compare, squared: in space for
\* check_checkpoint (space = TRUE), in the plane for update_track_height
PointDist2(p, space, i) ==
    IF space THEN Dist2(p, track_points[i]) ELSE Dist2XZ(p, track_points[i])

\* the least element of a non-empty set of integers
MinOf(S) == CHOOSE x \in S : \A y \in S : x <= y

\* the search loop of check_checkpoint and of update_track_height: the index of
\* the closest track point.  "if dist < closest_dist" keeps the earlier index on a
\* tie, so the loop returns the least index at the least distance.
ClosestIdx(p, space) ==
    LET least == MinOf({PointDist2(p, space, i) : i \in 0..(Segments - 1)})
    IN  MinOf({i \in 0..(Segments - 1) : PointDist2(p, space, i) = least})

\* Car3D.update_track_height
update_track_height(c) ==
    LET closest_height == track_points[ClosestIdx(c.pos, FALSE)].y
    IN  [c EXCEPT !.pos.y = @ + RDiv((closest_height - @) * 2, 10)]

\* the branch of check_checkpoint (lines 207-212) taken for the closest index
Checkpoint(c, closest_idx) ==
    IF closest_idx > c.last_checkpoint
      THEN [c EXCEPT !.last_checkpoint = closest_idx]
    ELSE IF closest_idx < c.last_checkpoint /\ closest_idx < 20
      THEN [c EXCEPT !.lap_count = @ + 1, !.finished = (c.lap_count + 1 >= 3)]
    ELSE c

\* Car3D.check_checkpoint
check_checkpoint(c) == Checkpoint(c, ClosestIdx(c.pos, TRUE))

\* Car3D.update, lines 81-90: friction, speed and position
Integrate(c) ==
    LET vx == RDiv(c.velocity.x * 97, 100)
        vz == RDiv(c.velocity.z * 97, 100)
    IN  [c EXCEPT !.velocity.x = vx,
                  !.velocity.z = vz,
                  !.speed = ISqrt(vx * vx + vz * vz),
                  !.pos.x = @ + RDiv(vx * DtMs, 1000),
                  !.pos.z = @ + RDiv(vz * DtMs, 1000)]

\* Car3D.update; keys is the pressed-key record handed to the player's car
CarUpdate(c, keys) ==
    IF c.finished THEN c
    ELSE LET c1 == IF c.is_player THEN update_player_input(c, keys) ELSE update_ai(c)
             c2 == check_checkpoint(update_track_height(Integrate(c1)))
         IN  [c2 EXCEPT !.distance_traveled = @ + RDiv(c2.speed * DtMs, 1000)]

\* ---- Game3D

\* the key combinations the model lets the player hold
NoKeys == [w |-> FALSE, s |-> FALSE, a |-> FALSE, d |-> FALSE, shift |-> FALSE]
KeyCombos ==
    { NoKeys,
      [NoKeys EXCEPT !.w = TRUE],                       \* accelerate
      [NoKeys EXCEPT !.s = TRUE, !.shift = TRUE],       \* reverse
      [NoKeys EXCEPT !.w = TRUE, !.d = TRUE] }          \* accelerate and steer right

\* a Car3D placed on track point i
CarAt(i, car_class, is_player) ==
    Car3D(track_points[i].x, track_points[i].y, track_points[i].z, car_class, is_player)

\* Game3D.setup_game (the track always has its 200 points)
setup_game(g) ==
    [g EXCEPT !.player = CarAt(0, "SPORTS", TRUE),
              !.ai_cars = << CarAt(10, "SUPERCAR", FALSE),
                             CarAt(20, "MUSCLE", FALSE),
                             CarAt(30, "ECONOMY", FALSE) >>]

\* the object before __init__ has created its cars
BlankGame3D ==
    [running |-> TRUE, state |-> "menu",
     player |-> CarAt(0, "SPORTS", TRUE), ai_cars |-> << >>]

\* mutant of KeyDown: SPACE in the menu starts the race without setup_game
KeyDown_NoSetup(g, k) ==
    IF g.state = "menu" /\ k = "space"
      THEN [g EXCEPT !.state = "racing"]
    ELSE IF g.state = "finish" /\ k = "space"
      THEN [g EXCEPT !.state = "menu"]
    ELSE IF k = "escape"
      THEN [g EXCEPT !.running = FALSE]
    ELSE g

\* Game3D.handle_events for one KEYDOWN event of key k
KeyDown(g, k) ==
    IF g.state = "menu" /\ k = "space"
      THEN setup_game([g EXCEPT !.state = "racing"])
    ELSE IF g.state = "finish" /\ k = "space"
      THEN [g EXCEPT !.state = "menu"]
    ELSE IF k = "escape"
      THEN [g EXCEPT !.running = FALSE]
    ELSE g

\* Game3D.update in state "racing": the loop's AI iterations, car.update(points, dt=dt)
\* (an AI car is handed no keys and never reads any)
UpdateAiCars(g) == [i \in 1..Len(g.ai_cars) |-> CarUpdate(g.ai_cars[i], NoKeys)]

\* mutant of UpdateCars: the race ends as soon as any car has finished
UpdateCars_AnyCarFinishes(g, pressed, ai) ==
    LET player == CarUpdate(g.player, pressed)
    IN  [g EXCEPT !.player = player,
                  !.ai_cars = ai,
                  !.state = IF player.finished \/ \E i \in 1..Len(ai) : ai[i].finished
                              THEN "finish" ELSE "racing"]

\* Game3D.update in state "racing" with the pressed keys, given the updated AI cars
UpdateCars(g, pressed, ai) ==
    LET player == CarUpdate(g.player, pressed)
    IN  [g EXCEPT !.player = player,
                  !.ai_cars = ai,
                  !.state = IF player.finished THEN "finish" ELSE "racing"]

\* Game3D.update in state "racing", with the pressed keys
update(g, pressed) == UpdateCars(g, pressed, UpdateAiCars(g))

\* Game3D.all_cars = [player] + ai_cars, indexed from 0
Car(g, i) == IF i = 0 THEN g.player ELSE g.ai_cars[i]

\* ---- Game3D.project_3d_to_2d
\* Screen coordinates are kept in tenths of a pixel until int() truncates them.

\* SCREEN_WIDTH and SCREEN_HEIGHT of racing game.py
RACING_SCREEN_WIDTH == 1400
RACING_SCREEN_HEIGHT == 900

\* fov = 60; focal_length = (SCREEN_WIDTH / 2) / math.tan(math.radians(fov / 2))
FocalLength == RDiv((RACING_SCREEN_WIDTH \div 2) * Deci * Trig, TanTab[30])

\* the value None of an Optional result; a returned tuple is a sequence <<sx, sy>>
None == << >>

\* rotated_x and rotated_z of lines 345-346, times Trig
RotatedX(dx, dz, cam_angle) == dx * Cos(cam_angle) - dz * Sin(cam_angle)
RotatedZ(dx, dz, cam_angle) == dx * Sin(cam_angle) + dz * Cos(cam_angle)

\* mutant of BehindCamera: the near plane at 0.05 in place of 0.5
BehindCamera_TooNear(rz) == 2 * rz < Trig

\* line 349: rotated_z <= 0.5, for rotated_z times Trig
BehindCamera(rz) == 2 * rz <= Deci * Trig

\* line 359: 0 <= screen_x < SCREEN_WIDTH and 0 <= screen_y < SCREEN_HEIGHT
InScreen(sx, sy) ==
    /\ 0 <= sx /\ sx < RACING_SCREEN_WIDTH * Deci
    /\ 0 <= sy /\ sy < RACING_SCREEN_HEIGHT * Deci

\* Game3D.project_3d_to_2d
project_3d_to_2d(x, y, z, cam_x, cam_y, cam_z, cam_angle) ==
    LET dx == x - cam_x
        dz == z - cam_z
        dy == y - cam_y
        rotated_x == RDiv(RotatedX(dx, dz, cam_angle), Trig)
        rotated_z == RDiv(RotatedZ(dx, dz, cam_angle), Trig)
        screen_x == (RACING_SCREEN_WIDTH \div 2) * Deci
                      + RDiv(rotated_x * FocalLength, rotated_z)
        screen_y == (RACING_SCREEN_HEIGHT \div 2) * Deci
                      - RDiv(dy * FocalLength, rotated_z)
    IN  IF BehindCamera(RotatedZ(dx, dz, cam_angle)) THEN None
        ELSE IF InScreen(screen_x, screen_y)
               THEN << screen_x \div Deci, screen_y \div Deci >>     \* int(), int()
        ELSE None

\* ---- the actions of the racing program

\* pygame.QUIT in handle_events
RacingQuit ==
    /\ pc = "loop"
    /\ game3d' = [game3d EXCEPT !.running = FALSE]
    /\ ev' = "quit"
    /\ UNCHANGED <<pc, held, frames, keychanges, races, counted, flappyVars, probe, trainer>>

\* KEYDOWN in handle_events
RacingKeyDown ==
    /\ pc = "loop"
    /\ \E k \in {"space", "escape", "other"} :
          /\ game3d' = KeyDown(game3d, k)
          /\ ev' = k
          /\ races' = IF game3d.state = "menu" /\ k = "space" THEN races + 1 ELSE races
          /\ counted' = IF game3d.state = "menu" /\ k = "space" THEN {} ELSE counted
    /\ UNCHANGED <<pc, held, frames, keychanges, flappyVars, probe, trainer>>

\* one pass of the loop body after the events: update (draw changes nothing),
\* then the while test
RacingUpdate ==
    /\ pc = "loop"
    /\ IF game3d.state = "racing"
         THEN /\ frames < MaxRaceFrames
              /\ LET ai == UpdateAiCars(game3d)      \* the same for every k
                 IN  \E k \in KeyCombos :
                    /\ k = held \/ keychanges < MaxKeyChanges
                    /\ game3d' = UpdateCars(game3d, k, ai)
                    /\ counted' = { i \in 0..Len(ai) :
                                       Car(game3d', i).lap_count > Car(game3d, i).lap_count }
                    /\ held' = k
                    /\ keychanges' = IF k = held THEN keychanges ELSE keychanges + 1
              /\ frames' = frames + 1
         ELSE UNCHANGED <<game3d, held, keychanges, frames, counted>>
    /\ pc' = IF game3d.running THEN "loop" ELSE "exited"
    /\ ev' = "tick"
    /\ UNCHANGED <<races, flappyVars, probe, trainer>>

(***************************************************************************)
(*              Question 1d - Program Building (2024).py                   *)
(*                                                                         *)
(* The program is a script: it blocks in input() and runs on when a line   *)
(* is entered.  One action is one entered line with the statements that    *)
(* run until the next input().  int() of a line that is no integer raises  *)
(* ValueError and ends the program; the entered lines modelled here are    *)
(* integers.                                                               *)
(***************************************************************************)

\* ---- bounds of the training model
\* entered session lengths range from 10 - LengthSlack to 30 + LengthSlack
LengthSlack == 3
\* lines entered at the session-length prompt in one run
MaxEntries == 3
\* songs entered in one run
MaxSongs == 4

LengthInputs == (10 - LengthSlack)..(30 + LengthSlack)

\* the song durations the model enters, in seconds
Durations == {0, 300, 900}

ErrorMessage == "Error. A training session must be between 10 and 30"

\* the program before line 9; out is the line the latest step printed
BlankTrainer ==
    [pc |-> "length", training_session |-> 0, total |-> 0, song_length |-> << >>,
     song_counter |-> 0, foam_machine |-> 0, entered |-> 0, entries |-> 0, out |-> ""]

\* mutant of Rejected: the range test with both ends excluded
Rejected_Exclusive(v) == v <= 10 \/ v >= 30

\* line 10: the condition of the validation loop
Rejected(v) == v < 10 \/ v > 30

\* lines 9-16 for one entered length v: the loop test, then either the error
\* message and the next prompt, or step 3 (minutes to seconds)
EnterLength(t, v) ==
    IF Rejected(v)
      THEN [t EXCEPT !.training_session = v, !.entered = v, !.entries = @ + 1,
                     !.out = ErrorMessage]
      ELSE [t EXCEPT !.training_session = v * 60, !.entered = v, !.entries = @ + 1,
                     !.out = "", !.pc = "songs"]

\* lines 22-29 for one entered duration d
EnterSong(t, d) ==
    LET total == t.total + d
    IN  [t EXCEPT !.total = total,
                  !.song_length = Append(@, d),
                  !.song_counter = @ + 1,
                  !.out = IF total >= t.training_session
                            THEN "You have entered enough songs" ELSE "",
                  !.pc = IF total < t.training_session THEN "songs" ELSE "summary"]

\* lines 33-46 with the random choice f of the foam machine's song
Summary(t, f) == [t EXCEPT !.foam_machine = f, !.out = "Your total is", !.pc = "done"]

TrainingEnterLength ==
    /\ trainer.pc = "length"
    /\ trainer.entries < MaxEntries
    /\ \E v \in LengthInputs : trainer' = EnterLength(trainer, v)
    /\ UNCHANGED <<pc, ev, frames, flappyVars, racingVars, probe>>

TrainingEnterSong ==
    /\ trainer.pc = "songs"
    /\ trainer.song_counter < MaxSongs
    /\ \E d \in Durations : trainer' = EnterSong(trainer, d)
    /\ UNCHANGED <<pc, ev, frames, flappyVars, racingVars, probe>>

TrainingSummary ==
    /\ trainer.pc = "summary"
    /\ \E f \in 1..trainer.song_counter : trainer' = Summary(trainer, f)
    /\ UNCHANGED <<pc, ev, frames, flappyVars, racingVars, probe>>

(***************************************************************************)
(*                          Single method calls                            *)
(*                                                                         *)
(* probe holds one call of a method of the games: the object and arguments *)
(* it is made on, drawn from bounded sets by the initial state, and the    *)
(* result once the call is made.                                           *)
(***************************************************************************)

\* ---- bounds of the calls
\* the cameras stand on every CamStep-th track point
CamStep == 30
\* the camera angles are the multiples of YawStep hundredths of a degree
YawStep == 4500
\* the speeds of the steered cars are the multiples of SpeedStep tenths of a unit
SpeedStep == 600
MaxSpeedSteps == 5
\* spawn_pipe is called with up to MaxPassed pipes passed
MaxPassed == 24
\* frames played to bring a flappy session to its end
MaxRun == 64

NoProbe == [fn |-> "none", done |-> FALSE]

\* -- project_3d_to_2d

\* the camera of draw_3d_view (lines 377-380) for a player on track point i
Camera(i, yaw) ==
    [x |-> track_points[i].x, y |-> track_points[i].y + 2 * Deci,
     z |-> track_points[i].z, angle |-> yaw]

\* the point d tenths of a unit ahead of the camera, at camera height, along the
\* forward vector (cos yaw, sin yaw) of update_player_input (lines 122-123)
AheadOf(cam, d) ==
    [x |-> cam.x + RDiv(d * Cos(cam.angle), Trig),
     y |-> cam.y,
     z |-> cam.z + RDiv(d * Sin(cam.angle), Trig)]

Cameras ==
    { Camera(i, k * YawStep) :
        i \in { j \in 0..(Segments - 1) : j % CamStep = 0 },
        k \in 0..((36000 - 1) \div YawStep) }

ProjectCall(cam, p, d) ==
    [fn |-> "project", ahead |-> d, x |-> p.x, y |-> p.y, z |-> p.z,
     cam_x |-> cam.x, cam_y |-> cam.y, cam_z |-> cam.z, cam_angle |-> cam.angle,
     done |-> FALSE, result |-> None]

\* the calls of draw_3d_view on the track points (ahead = 0), and calls on points
\* straight ahead of the camera
ProjectCalls ==
    { ProjectCall(cam, track_points[i], 0) : cam \in Cameras, i \in 0..(Segments - 1) }
    \cup { ProjectCall(cam, AheadOf(cam, d), d) : cam \in Cameras, d \in {3, 10, 200, 3000} }

CallProject ==
    /\ probe.fn = "project" /\ ~probe.done
    /\ probe' = [probe EXCEPT
                   !.done = TRUE,
                   !.result = project_3d_to_2d(probe.x, probe.y, probe.z, probe.cam_x,
                                               probe.cam_y, probe.cam_z, probe.cam_angle)]
    /\ UNCHANGED <<pc, ev, frames, flappyVars, racingVars, trainer>>

\* -- update_player_input

\* the player's car moving along x with speed s, heading yaw
SteerCar(s, yaw) ==
    [CarAt(0, "SPORTS", TRUE) EXCEPT !.speed = s, !.velocity.x = s, !.angle_yaw = yaw]

SteerKeys ==
    { [NoKeys EXCEPT !.a = TRUE],
      [NoKeys EXCEPT !.d = TRUE],
      [NoKeys EXCEPT !.w = TRUE, !.d = TRUE],
      [NoKeys EXCEPT !.a = TRUE, !.d = TRUE] }

\* the same car at a lower and at a higher speed, with the same keys held
SteerCall(lo, hi, k) ==
    [fn |-> "steer", lo |-> lo, hi |-> hi, keys |-> k, done |-> FALSE,
     lo_out |-> lo, hi_out |-> hi]

SteerCalls ==
    UNION { { SteerCall(SteerCar(i * SpeedStep, yaw), SteerCar(j * SpeedStep, yaw), k) :
                j \in (i + 1)..MaxSpeedSteps, yaw \in {0, 18000, 35900}, k \in SteerKeys } :
            i \in 0..MaxSpeedSteps }

CallSteer ==
    /\ probe.fn = "steer" /\ ~probe.done
    /\ probe' = [probe EXCEPT !.done = TRUE,
                              !.lo_out = update_player_input(probe.lo, probe.keys),
                              !.hi_out = update_player_input(probe.hi, probe.keys)]
    /\ UNCHANGED <<pc, ev, frames, flappyVars, racingVars, trainer>>

\* -- spawn_pipe

\* a session with n pipes passed whose last pipe has moved 200 pixels in
SpawnGame(n) ==
    [ResetFields(BlankGame) EXCEPT
        !.pipes_passed = n,
        !.score = n,
        !.pipes = << [x |-> PX(SCREEN_WIDTH - 200) - 1, top_height |-> PX(80),
                      gap |-> PX(200), passed |-> FALSE] >>]

SpawnCalls ==
    { [fn |-> "spawn", g |-> SpawnGame(n), done |-> FALSE, out |-> SpawnGame(n)] :
        n \in 0..MaxPassed }

CallSpawnPipe ==
    /\ probe.fn = "spawn" /\ ~probe.done
    /\ \E h \in PipeHeights(NextGap(probe.g)) :
          probe' = [probe EXCEPT !.done = TRUE, !.out = spawn_pipe(probe.g, h)]
    /\ UNCHANGED <<pc, ev, frames, flappyVars, racingVars, trainer>>

\* -- Game.update and Game.handle_input on a session that is over

\* a session played until it is over (or for MaxRun frames): the player flaps
\* before every every-th update (never if every = 0); every pipe has height h
RECURSIVE RunOut(_, _, _, _)
RunOut(g, h, every, k) ==
    IF g.game_over \/ k = MaxRun THEN g
    ELSE RunOut(UpdateGame(IF every > 0 /\ k % every = 0 THEN KeySpace(g, h) ELSE g, h),
                h, every, k + 1)

OverGames ==
    { g \in { RunOut(reset_game(BlankGame, h), h, every, 0) :
                h \in PipeHeights(PX(200)), every \in {0, 7, 16} } : g.game_over }

OverCalls ==
    { [fn |-> f, g |-> g, done |-> FALSE, out |-> g] :
        f \in {"update_over", "space_over"}, g \in OverGames }

CallGameUpdate ==
    /\ probe.fn = "update_over" /\ ~probe.done
    /\ \E h \in PipeHeights(NextGap(UpdatePhysics(probe.g))) :
          probe' = [probe EXCEPT !.done = TRUE, !.out = Game_update(probe.g, h)]
    /\ UNCHANGED <<pc, ev, frames, flappyVars, racingVars, trainer>>

CallKeySpace ==
    /\ probe.fn = "space_over" /\ ~probe.done
    /\ \E h \in PipeHeights(PX(200)) :
          probe' = [probe EXCEPT !.done = TRUE, !.out = KeySpace(probe.g, h)]
    /\ UNCHANGED <<pc, ev, frames, flappyVars, racingVars, trainer>>

\* -- Car3D.update on a finished car

\* a car after one update for each entry of the key sequence ks
RECURSIVE Drive(_, _)
Drive(c, ks) == IF ks = << >> THEN c ELSE Drive(CarUpdate(c, Head(ks)), Tail(ks))

\* the cars of a race after MaxRaceFrames frames: the AI cars, and the player after
\* accelerating for three frames and reversing since
RacedCars ==
    LET W == [NoKeys EXCEPT !.w = TRUE]
        R == [NoKeys EXCEPT !.s = TRUE, !.shift = TRUE]
        idle == [i \in 1..MaxRaceFrames |-> NoKeys]
    IN  { Drive(CarAt(10, "SUPERCAR", FALSE), idle),
          Drive(CarAt(20, "MUSCLE", FALSE), idle),
          Drive(CarAt(30, "ECONOMY", FALSE), idle),
          Drive(CarAt(0, "SPORTS", TRUE), [i \in 1..MaxRaceFrames |-> IF i <= 3 THEN W ELSE R]) }

FinishedCalls ==
    { [fn |-> "car_finished", c |-> c, keys |-> k, done |-> FALSE, out |-> c] :
        c \in { r \in RacedCars : r.finished }, k \in KeyCombos }

CallCarUpdate ==
    /\ probe.fn = "car_finished" /\ ~probe.done
    /\ probe' = [probe EXCEPT !.done = TRUE, !.out = CarUpdate(probe.c, probe.keys)]
    /\ UNCHANGED <<pc, ev, frames, flappyVars, racingVars, trainer>>

(***************************************************************************)
(*                            The specifications                           *)
(***************************************************************************)

\* Game.__init__ (running = True, reset_game()) and Game3D.__init__ (running =
\* True, state = "menu", setup_game())
InitGames(flappy) ==
    /\ IF flappy
         THEN \E h \in PipeHeights(PX(200)) : game = reset_game(BlankGame, h)
         ELSE game = BlankGame
    /\ game3d = setup_game(BlankGame3D)
    /\ pc = "loop"
    /\ ev = "init"
    /\ held = NoKeys
    /\ frames = 0
    /\ flapped = FALSE
    /\ keychanges = 0
    /\ races = 0
    /\ counted = {}
    /\ gone = << >>
    /\ probe = NoProbe
    /\ trainer = BlankTrainer

FlappyNext ==
    \/ FlappyQuit
    \/ FlappyRestart
    \/ FlappyFlap
    \/ FlappyOtherKey
    \/ FlappyUpdate

RacingNext ==
    \/ RacingQuit
    \/ RacingKeyDown
    \/ RacingUpdate

\* the flappy program is started
InitFlappy == InitGames(TRUE)

\* the racing program is started
InitRacing == InitGames(FALSE)

SpecFlappy == InitFlappy /\ [][FlappyNext]_vars

SpecRacing == InitRacing /\ [][RacingNext]_vars

\* the training-session program is started; the games are not running
InitTraining ==
    /\ game = BlankGame
    /\ game3d = BlankGame3D
    /\ pc = "exited"
    /\ ev = "init"
    /\ held = NoKeys
    /\ frames = 0
    /\ flapped = FALSE
    /\ keychanges = 0
    /\ races = 0
    /\ counted = {}
    /\ gone = << >>
    /\ probe = NoProbe
    /\ trainer = BlankTrainer

TrainingNext ==
    \/ TrainingEnterLength
    \/ TrainingEnterSong
    \/ TrainingSummary

SpecTraining == InitTraining /\ [][TrainingNext]_vars

\* one method call is about to be made
InitCalls ==
    /\ game = BlankGame
    /\ game3d = BlankGame3D
    /\ pc = "exited"
    /\ ev = "init"
    /\ held = NoKeys
    /\ frames = 0
    /\ flapped = FALSE
    /\ keychanges = 0
    /\ races = 0
    /\ counted = {}
    /\ gone = << >>
    /\ trainer = BlankTrainer
    /\ probe \in ProjectCalls \cup SteerCalls \cup SpawnCalls \cup OverCalls \cup FinishedCalls

CallsNext ==
    \/ CallProject
    \/ CallSteer
    \/ CallSpawnPipe
    \/ CallGameUpdate
    \/ CallKeySpace
    \/ CallCarUpdate

SpecCalls == InitCalls /\ [][CallsNext]_vars

(***************************************************************************)
(*                                 Claims                                  *)
(***************************************************************************)

\* the cars of the racing game, as indices of Car
AllCars == 0..Len(game3d.ai_cars)

\* ---- C1
\* C1 as stated: after every Car3D.update, every car's planar speed
\* sqrt(velocity.x^2 + velocity.z^2) is at most its class max_speed (plus an
\* epsilon of one tenth of a unit).
C1_SpeedWithinMax ==
    \A i \in AllCars :
        LET c == Car(game3d, i)
        IN  c.velocity.x * c.velocity.x + c.velocity.z * c.velocity.z
               <= (c.max_speed * Deci + 1) * (c.max_speed * Deci + 1)

\* ---- C2
\* "near the final index": within 20 indices of len(track_points) - 1
C2_NearEnd(idx) == idx >= Segments - 1 - 20

\* C2 as stated: an update increments a car's lap_count only if the car's
\* last_checkpoint was near the final index and its closest index is now below 20.
C2_LapOnlyOnWrap ==
    [][ev' = "tick" =>
          \A i \in AllCars :
              Car(game3d, i).lap_count' > Car(game3d, i).lap_count
                 => /\ C2_NearEnd(Car(game3d, i).last_checkpoint)
                    /\ ClosestIdx(Car(game3d, i).pos, TRUE)' < 20]_vars

\* ---- C3
\* C3 as stated, for two successive frames: a car whose lap_count the latest update
\* incremented (its closest index wrapped to an early one) is not counted again by
\* the next update, before its closest index can have advanced round the track.
C3_OneLapPerWrap ==
    [][ev' = "tick" =>
          \A i \in counted :
              Car(game3d, i).lap_count' = Car(game3d, i).lap_count]_vars

\* ---- C4
\* the player's box and pipe p overlap horizontally: [x, x + 50) meets
\* [player_x, player_x + PLAYER_SIZE)
C4_Overlaps(p) ==
    /\ game.player_x < p.x + Scale * 50
    /\ p.x < game.player_x + Scale * 60

\* the player's box lies vertically inside the gap of pipe p
C4_InsideGap(p) ==
    /\ game.player_y >= p.top_height
    /\ game.player_y + Scale * 60 <= p.top_height + p.gap

C4_Pipes == { game.pipes[i] : i \in 1..Len(game.pipes) }

\* C4: a pipe that overlaps the player horizontally with the player outside its gap
\* always ends the session, and a session that is over has a cause: the player off
\* the screen, or such a pipe; a pipe whose gap holds the player is none.
C4_PipeCollision ==
    /\ \A p \in C4_Pipes : C4_Overlaps(p) /\ ~C4_InsideGap(p) => game.game_over
    /\ game.game_over =>
          \/ game.player_y < 0
          \/ game.player_y + Scale * 60 > Scale * 600
          \/ \E p \in C4_Pipes : C4_Overlaps(p) /\ ~C4_InsideGap(p)

\* an update has left the player inside the gap of a pipe it overlaps, still playing
C4_Witness ==
    /\ ev = "tick"
    /\ ~game.game_over
    /\ \E p \in C4_Pipes : C4_Overlaps(p) /\ C4_InsideGap(p)

\* ---- C5
\* C5: with the player's box horizontally outside every pipe and vertically on the
\* screen, the session is not over.
C5_NoOverlapNoGameOver ==
    ( /\ \A p \in C4_Pipes : ~C4_Overlaps(p)
      /\ game.player_y >= 0
      /\ game.player_y + Scale * 60 <= Scale * 600 )
    => ~game.game_over

\* an update has left the player beside every pipe, at a height outside the gap of
\* one of them, still playing
C5_Witness ==
    /\ ev = "tick"
    /\ ~game.game_over
    /\ \A p \in C4_Pipes : ~C4_Overlaps(p)
    /\ \E p \in C4_Pipes : ~C4_InsideGap(p)

\* ---- C6
C6_Modes == {"menu", "racing", "finish"}

\* C6: the mode starts as menu, stays one of menu, racing, finish, and changes only
\* menu -> racing on SPACE, racing -> finish by an update that leaves the player
\* with lap_count >= 3, finish -> menu on SPACE; each of these always changes it.
C6_ModeMachine ==
    /\ game3d.state = "menu"
    /\ [][LET s == game3d.state
              t == game3d.state'
          IN  /\ t \in C6_Modes
              /\ t # s =>
                   \/ s = "menu" /\ t = "racing" /\ ev' = "space"
                   \/ s = "racing" /\ t = "finish" /\ ev' = "tick"
                        /\ game3d.player.lap_count' >= 3
                   \/ s = "finish" /\ t = "menu" /\ ev' = "space"
              /\ s = "racing" /\ ev' = "tick" /\ game3d.player.lap_count' >= 3
                   => t = "finish"
              /\ s = "menu" /\ ev' = "space" => t = "racing"
              /\ s = "finish" /\ ev' = "space" => t = "menu"]_vars

\* the game is back in the menu after a race that the player finished, with an AI
\* car finished as well
C6_Witness ==
    /\ game3d.state = "menu"
    /\ races >= 1
    /\ game3d.player.finished
    /\ \E i \in 1..Len(game3d.ai_cars) : game3d.ai_cars[i].finished

\* ---- C7
C7_Fresh ==
    /\ ~game.game_over
    /\ game.score = 0
    /\ game.pipes_passed = 0
    /\ game.current_speed = Scale * 4
    /\ game.current_gap = Scale * 200
    /\ game.player_x = Scale * 100
    /\ game.player_y = Scale * 300
    /\ game.player_velocity = 0
    /\ Len(game.pipes) = 1
    /\ game.pipes[1].x = Scale * 800
    /\ ~game.pipes[1].passed

\* C7: SPACE handled while game_over leaves the session reset.
C7_RestartResets == [][game.game_over /\ ev' = "space" => C7_Fresh']_vars

\* SPACE has just restarted a session that was over
C7_Witness == ev = "space" /\ ~flapped /\ C7_Fresh

\* ---- C8
C8_FreshCar(c, i) ==
    /\ c.lap_count = 0
    /\ c.last_checkpoint = 0
    /\ ~c.finished
    /\ c.velocity.x = 0 /\ c.velocity.y = 0 /\ c.velocity.z = 0
    /\ c.speed = 0
    /\ c.distance_traveled = 0
    /\ c.pos = track_points[i]

C8_Fresh ==
    /\ C8_FreshCar(game3d.player, 0)
    /\ Len(game3d.ai_cars) = 3
    /\ \A i \in 1..3 : C8_FreshCar(game3d.ai_cars[i], 10 * i)

\* C8: whenever the mode becomes racing, every car is fresh and on its start point.
C8_RaceStartsFresh ==
    [][game3d.state # "racing" /\ game3d.state' = "racing" => C8_Fresh']_vars

\* a second race has just been started, after the first was finished
C8_Witness == game3d.state = "racing" /\ races = 2 /\ ev = "space" /\ C8_Fresh

\* ---- C9
\* C9 as stated: in either program a window close or an Escape press sets running
\* to false, and after the update of that frame the loop has exited.
C9_QuitSignals ==
    /\ ev \in {"quit", "escape"} => ~(game.running /\ game3d.running)
    /\ ev = "tick" /\ pc = "loop" => game.running /\ game3d.running

\* ---- C10
\* C10: in a session without a flap the 31st update ends the session, no earlier
\* update does, the player is then below the lower boundary, and every pipe is
\* still to the right of the player's box.
C10_NoFlapFallsOut ==
    ~flapped =>
        /\ frames >= 31 => game.game_over
        /\ game.game_over =>
              /\ frames = 31
              /\ game.player_y + Scale * 60 > Scale * 600
              /\ \A p \in C4_Pipes : p.x >= game.player_x + Scale * 60

\* a session without a flap has ended
C10_Witness == ~flapped /\ game.game_over /\ ev = "tick"

\* ---- C11
\* C11 as stated, its last part: in a race in which the player has given no driving
\* input, an update that leaves an AI car finished (3 laps) leaves the session in
\* the finished state.
C11_AiFinishEndsRace ==
    ( /\ ev = "tick"
      /\ races >= 1
      /\ keychanges = 0 /\ held = NoKeys
      /\ \E i \in 1..Len(game3d.ai_cars) : game3d.ai_cars[i].lap_count >= 3 )
    => game3d.state = "finish"

\* ---- C12
\* camera-space depth of the projected point, times Trig
C12_Depth ==
    (probe.x - probe.cam_x) * Sin(probe.cam_angle)
      + (probe.z - probe.cam_z) * Cos(probe.cam_angle)

\* C12: project_3d_to_2d returns None for every point of depth <= 0.5, and whatever
\* else it returns is a pair of integers inside the screen.
C12_ProjectionInScreen ==
    probe.fn = "project" /\ probe.done =>
        /\ 2 * C12_Depth <= Deci * Trig => probe.result = None
        /\ probe.result # None =>
              /\ Len(probe.result) = 2
              /\ probe.result[1] \in 0..(1400 - 1)
              /\ probe.result[2] \in 0..(900 - 1)

\* a track point in front of the camera has been projected onto the screen
C12_Witness ==
    /\ probe.fn = "project" /\ probe.done
    /\ probe.ahead = 0
    /\ probe.result # None

\* ---- C13
\* the size of the heading change from car c to car d
C13_Turn(c, d) == Abs(WrapAngle(d.angle_yaw - c.angle_yaw))

C13_OneSteeringKey == probe.keys.a # probe.keys.d

\* the heading change is 5 degrees times speed / max_speed
C13_Proportional(c, d) == C13_Turn(c, d) = RDiv(5 * Centi * c.speed, c.max_speed * Deci)

\* C13 as stated: with a steering key held the heading change is proportional to
\* speed / max_speed, and the car at the higher speed turns by less than the same
\* car at the lower speed.
C13_TurnScalesDown ==
    probe.fn = "steer" /\ probe.done /\ C13_OneSteeringKey =>
        /\ C13_Proportional(probe.lo, probe.lo_out)
        /\ C13_Proportional(probe.hi, probe.hi_out)
        /\ C13_Turn(probe.hi, probe.hi_out) < C13_Turn(probe.lo, probe.lo_out)

\* C13 amended: with exactly one steering key held the heading change is
\* proportional to speed / max_speed, and the car at the higher speed turns by more
\* than the same car at the lower speed.
C13_TurnGrowsWithSpeed ==
    probe.fn = "steer" /\ probe.done /\ C13_OneSteeringKey =>
        /\ C13_Proportional(probe.lo, probe.lo_out)
        /\ C13_Proportional(probe.hi, probe.hi_out)
        /\ C13_Turn(probe.hi, probe.hi_out) > C13_Turn(probe.lo, probe.lo_out)

\* a moving car and the same car at a higher speed have been steered
C13_Witness ==
    /\ probe.fn = "steer" /\ probe.done /\ C13_OneSteeringKey
    /\ probe.lo.speed > 0
    /\ probe.lo_out.angle_yaw # probe.lo.angle_yaw

\* ---- C14
\* the pipe a spawn_pipe call has appended
C14_Spawned == probe.out.pipes[Len(probe.out.pipes)]

\* C14: every pipe spawn_pipe creates has 100 <= gap <= 200, top_height >= 80 and
\* top_height + gap <= SCREEN_HEIGHT - 80 (in pixels).
C14_GapBounded ==
    probe.fn = "spawn" /\ probe.done =>
        /\ Len(probe.out.pipes) = Len(probe.g.pipes) + 1
        /\ Scale * 100 <= C14_Spawned.gap /\ C14_Spawned.gap <= Scale * 200
        /\ C14_Spawned.top_height >= Scale * 80
        /\ C14_Spawned.top_height + C14_Spawned.gap <= Scale * (600 - 80)
        /\ C14_Spawned.gap > Scale * 60

\* a pipe has been spawned after more than 20 pipes passed, where the floor of 100
\* on the gap applies
C14_Witness ==
    /\ probe.fn = "spawn" /\ probe.done
    /\ probe.g.pipes_passed > 20
    /\ C14_Spawned.gap = Scale * 100

\* ---- C15
\* C15: while the session is not over the player's box is on the screen.
C15_PlayerOnScreen ==
    ~game.game_over =>
        /\ 0 <= game.player_y
        /\ game.player_y + Scale * 60 <= Scale * 600

\* an update has left the player rising in the top tenth of the screen, still playing
C15_Witness ==
    /\ ev = "tick"
    /\ ~game.game_over
    /\ game.player_velocity < 0
    /\ game.player_y < Scale * 60

\* ---- C16
\* C16: while the program prompts for the length again, the entry before was outside
\* 10..30 and the error message was printed; the program is past the validation
\* only with an entry v in 10..30, and the song loop runs against v * 60 seconds.
C16_Validation ==
    /\ trainer.pc = "length" /\ trainer.entries > 0
         => /\ trainer.entered < 10 \/ trainer.entered > 30
            /\ trainer.out = ErrorMessage
    /\ trainer.pc # "length"
         => /\ 10 <= trainer.entered /\ trainer.entered <= 30
            /\ trainer.training_session = trainer.entered * 60
    /\ trainer.pc = "songs" => trainer.total < trainer.entered * 60
    /\ trainer.pc \in {"summary", "done"} => trainer.total >= trainer.entered * 60

\* a length of 30 has been accepted after a rejected entry, and songs were entered
\* until the total reached 1800 seconds
C16_Witness ==
    /\ trainer.pc = "summary"
    /\ trainer.entries > 1
    /\ trainer.entered = 30
    /\ trainer.total = 1800

\* ---- C17
\* C17 as stated: a point more than 0.5 units straight ahead of the camera, at
\* camera height, is projected onto the horizontal centre of the screen.
C17_AheadIsCentred ==
    probe.fn = "project" /\ probe.done /\ probe.ahead > 5 =>
        /\ probe.result # None
        /\ probe.result[1] = 1400 \div 2

\* ---- C18
\* C18: Game.update on a session that is over changes none of its fields, SPACE in
\* that state resets the session and does not flap, and Car3D.update on a finished
\* car changes nothing of the car.
C18_TerminalFrozen ==
    /\ probe.fn = "update_over" /\ probe.done =>
          /\ probe.out.player_y = probe.g.player_y
          /\ probe.out.player_velocity = probe.g.player_velocity
          /\ probe.out.pipes = probe.g.pipes
          /\ probe.out.score = probe.g.score
          /\ probe.out.pipes_passed = probe.g.pipes_passed
          /\ probe.out.current_speed = probe.g.current_speed
          /\ probe.out.current_gap = probe.g.current_gap
          /\ probe.out.game_over
    /\ probe.fn = "space_over" /\ probe.done =>
          /\ ~probe.out.game_over
          /\ probe.out.player_velocity = 0
          /\ probe.out.player_y = Scale * 300
          /\ probe.out.score = 0
          /\ Len(probe.out.pipes) = 1
    /\ probe.fn = "car_finished" /\ probe.done => probe.out = probe.c

\* update has been called on a session that ended with the player above the screen
\* and a pipe in the list
C18_Witness ==
    /\ probe.fn = "update_over" /\ probe.done
    /\ probe.g.player_y < 0
    /\ Len(probe.g.pipes) >= 1

\* ---- C19
\* the pipes of the list that are marked passed
C19_PassedInList == Cardinality({i \in 1..Len(game.pipes) : game.pipes[i].passed})

\* C19: score and pipes_passed both equal the number of pipes marked passed since
\* the reset (those in the list and those removed), every removed pipe was marked
\* passed, and across an update a pipe that stays in the list keeps its mark.
C19_ScoredOnce ==
    /\ [](/\ game.score = game.pipes_passed
          /\ game.score = C19_PassedInList + Len(gone)
          /\ \A i \in 1..Len(gone) : gone[i])
    /\ [][ev' = "tick" =>
            LET k == Len(gone') - Len(gone)
            IN  /\ k >= 0
                /\ \A i \in (k + 1)..Len(game.pipes) :
                      /\ i - k <= Len(game.pipes')
                      /\ game.pipes[i].passed => game.pipes'[i - k].passed]_vars

\* a pipe has been removed from the list and a later pipe has been passed
C19_Witness ==
    /\ ev = "tick"
    /\ Len(gone) >= 1
    /\ game.score >= 2

====
